---- MODULE Spec2Model ----
(***************************************************************************)
(* Verification model of the attendance system: the attendance recorder    *)
(* (simple_attendance_system.py, opencv_only_system.py, database_init.py), *)
(* the matcher (flask_api.py, simple_attendance_system.py,                 *)
(* opencv_only_system.py) and the embedding gallery with its registration  *)
(* pipeline (smart_attendance_system.py).                                  *)
(***************************************************************************)
EXTENDS Integers, Sequences, FiniteSets, TLC

VARIABLES
    \* ---- attendance store (sqlite file attendance.db) and its writers
    timeAdapter,    \* TRUE iff the process has an sqlite3 adapter for datetime.time
    tableSchema,    \* "none" | "plain" | "unique": how table attendance was created
    attendance,     \* committed rows of table attendance, in rowid order
    today,          \* datetime.now().date()
    ticks,          \* datetime.now().time(), a logical clock
    runs,           \* one record per frame-processing run
    dbLock,         \* the run holding sqlite's write lock, 0 if none
    calls,          \* log of the recording attempts and their outcomes
    \* ---- gallery of OptimizedAttendanceSystem
    known_face_encodings,   \* flattened lookup sequence: embeddings
    known_face_names,       \* flattened lookup sequence: owning student ids
    student_database,       \* per-student map: id -> record with its encodings
    \* ---- galleries of the two stand-alone systems
    student_encodings,      \* SimpleAttendanceSystem: ordered dict id -> encodings
    student_photos,         \* OpenCVAttendanceSystem: ordered dict id -> reference photo
    \* ---- matcher
    matchOut,               \* what the last match operation returned
    \* ---- registration pipeline of OptimizedAttendanceSystem
    files,          \* models/precomputed_encodings: student id -> artifact content
    folders,        \* student_photos: the folder names, in os.listdir order
    photos,         \* folder name -> what each image of the folder encodes to
    reg,            \* the register_student call in progress
    batch,          \* the batch_register_from_folders call in progress
    ret,            \* the last completed top-level call and what it returned
    nCalls,         \* number of top-level calls made on the object
    disk,           \* what writing into models/precomputed_encodings does at present
    \* ---- detection merger of OptimizedAttendanceSystem
    face_locations, \* the boxes (top, right, bottom, left) the detectors returned
    merged,         \* what the last merge operation returned
    \* ---- one thread mutating the gallery while another matches a frame
    writer,         \* the statement the mutating thread is at, and its locals
    seen            \* what the matching thread read from the gallery

recorderVars == <<timeAdapter, tableSchema, attendance, today, ticks, runs, dbLock, calls>>

galleryVars == <<known_face_encodings, known_face_names, student_database>>

matcherVars == <<student_encodings, student_photos, matchOut>>

pipelineVars == <<files, folders, photos, reg, batch, ret, nCalls, disk>>

mergerVars == <<face_locations, merged>>

readerVars == <<writer, seen>>

vars == <<timeAdapter, tableSchema, attendance, today, ticks, runs, dbLock, calls,
          known_face_encodings, known_face_names, student_database,
          student_encodings, student_photos, matchOut,
          files, folders, photos, reg, batch, ret, nCalls, disk,
          face_locations, merged, writer, seen>>

(***************************************************************************)
(* Bounds                                                                  *)
(***************************************************************************)
MaxFaces == 2

Runs == {1, 2}                     \* two frame-processing runs
Dates == {1, 2}

StudentIds == {"A", "B"}
Unknown == "Unknown"
Confidence(r) == IF r = 1 THEN 90 ELSE 60   \* hundredths; opaque to the recorder
Systems == {"simple", "opencv"}

Range(s) == {s[i] : i \in DOMAIN s}

SeqsUpTo(S, n) == UNION {[1..k -> S] : k \in 0..n}

MatchResult(sid, conf) == [student_id |-> sid, confidence |-> conf]

\* a check that lets every match result through to the store
IsUnknownNever(student_id) == FALSE

\* student_id == 'Unknown', the check made before a result is recorded
IsUnknown(student_id) == student_id = Unknown

\* the match results of a frame: a student id or Unknown per face, with the
\* confidence the matcher reports
FrameIds == SeqsUpTo(StudentIds \cup {Unknown}, MaxFaces)

FrameOf(ids, r) == [i \in DOMAIN ids |-> MatchResult(ids[i], Confidence(r))]

(***************************************************************************)
(* sqlite3 parameter binding: str, float and None bind natively, date and  *)
(* datetime through the default adapters; datetime.time binds only when    *)
(* the process registered an adapter for it.                               *)
(***************************************************************************)
BindParameters(adapter) == adapter

Row(sid, d, t, conf, img) ==
    [student_id |-> sid, date |-> d, time |-> t, confidence |-> conf, image_path |-> img]

RowsFor(rows, sid, d) == {i \in DOMAIN rows : rows[i].student_id = sid /\ rows[i].date = d}

\* CREATE TABLE IF NOT EXISTS attendance (...) without a uniqueness constraint
CreateTablePlain(schema) == IF schema = "none" THEN "plain" ELSE schema

\* CREATE TABLE IF NOT EXISTS attendance (..., UNIQUE(student_id, date))
CreateTableUnique(schema) == IF schema = "none" THEN "unique" ELSE schema

\* INSERT INTO attendance ... VALUES (?, ?, ?, ?, ?) against the rows the
\* connection sees: "ok" or the exception sqlite3 raises.
InsertOutcome(adapter, schema, visible, row) ==
    IF ~BindParameters(adapter) THEN "bind_error"
    ELSE IF schema = "unique" /\ RowsFor(visible, row.student_id, row.date) # {}
         THEN "integrity_error"
         ELSE "ok"

\* a statement that replaces the row of the same (student_id, date)
InsertOrReplaceRow(rows, row) ==
    IF RowsFor(rows, row.student_id, row.date) = {}
    THEN Append(rows, row)
    ELSE [i \in DOMAIN rows |->
            IF i \in RowsFor(rows, row.student_id, row.date) THEN row ELSE rows[i]]

\* the effect of a successful INSERT: one more row, the others untouched
InsertRow(rows, row) == Append(rows, row)

IdleRun == [status |-> "idle", system |-> "simple", results |-> <<>>, i |-> 1,
            pending |-> <<>>, date |-> 0, time |-> 0, error |-> "none",
            overlapped |-> FALSE]

ImagePath(r) == r      \* each run processes its own image file

\* one recording attempt: who, for which key, whether a committed record of
\* the key existed when it was made, and how it ended
Call(r, sid, d, outcome) ==
    [run |-> r, student_id |-> sid, date |-> d, outcome |-> outcome,
     existed |-> RowsFor(attendance, sid, d) # {}]

NoMatch == [op |-> "none"]

NoRegistration == [active |-> FALSE]

NoBatch == [active |-> FALSE]

NoReturn == [op |-> "none"]

NoMerge == [op |-> "none"]

\* the detection merger before any image was processed
MergerUnused ==
    /\ face_locations = <<>>
    /\ merged = NoMerge

NoWriter == [pc |-> "idle", op |-> "none", student_id |-> "", encodings |-> <<>>,
             todo |-> <<>>]

NoSnapshot == [op |-> "none"]

\* no thread is inside a gallery operation
ReaderUnused ==
    /\ writer = NoWriter
    /\ seen = NoSnapshot

\* the registration pipeline at rest, with no photos and no artifacts
PipelineUnused ==
    /\ files = <<>>
    /\ folders = <<>>
    /\ photos = <<>>
    /\ reg = NoRegistration
    /\ batch = NoBatch
    /\ ret = NoReturn
    /\ nCalls = 0
    /\ disk = "ok"

(***************************************************************************)
(* Attendance recorder                                                     *)
(***************************************************************************)
RecorderInit ==
    /\ timeAdapter \in BOOLEAN
    /\ tableSchema = "none"
    /\ attendance = <<>>
    /\ today = 1
    /\ ticks = 1
    /\ runs = [r \in Runs |-> IdleRun]
    /\ dbLock = 0
    /\ calls = <<>>
    /\ known_face_encodings = <<>>
    /\ known_face_names = <<>>
    /\ student_database = <<>>
    /\ student_encodings = <<>>
    /\ student_photos = <<>>
    /\ matchOut = NoMatch
    /\ PipelineUnused
    /\ MergerUnused
    /\ ReaderUnused

\* DatabaseInitializer._create_attendance_table
InitializeDatabase ==
    /\ tableSchema = "none"
    /\ tableSchema' = CreateTableUnique(tableSchema)
    /\ UNCHANGED <<timeAdapter, attendance, today, ticks, runs, dbLock, calls, galleryVars, matcherVars, pipelineVars, mergerVars, readerVars>>

\* midnight passes
NewDay ==
    /\ today + 1 \in Dates
    /\ today' = today + 1
    /\ UNCHANGED <<timeAdapter, tableSchema, attendance, ticks, runs, dbLock, calls, galleryVars, matcherVars, pipelineVars, mergerVars, readerVars>>

Finished(run) == run.i > Len(run.results)

\* A run gets the match results of its frame.  SimpleAttendanceSystem then
\* loops over them in process_classroom_photo; OpenCVAttendanceSystem enters
\* mark_attendance_batch: connect, CREATE TABLE IF NOT EXISTS, read the clock.
StartRun(r, sys, ids) ==
    LET frame == FrameOf(ids, r)
        busy  == {q \in Runs : runs[q].status = "running"}
        mark  == [q \in Runs |-> IF q \in busy THEN [runs[q] EXCEPT !.overlapped = TRUE]
                                                ELSE runs[q]]
        begun == [IdleRun EXCEPT !.status = "running", !.system = sys, !.results = frame,
                                 !.overlapped = busy # {}]
    IN
    /\ runs[r].status = "idle"
    /\ IF frame = <<>>
       THEN /\ runs' = [runs EXCEPT ![r] = [IdleRun EXCEPT !.status = "done", !.system = sys]]
            /\ UNCHANGED <<tableSchema, ticks>>
       ELSE IF sys = "simple"
       THEN /\ runs' = [mark EXCEPT ![r] = begun]
            /\ UNCHANGED <<tableSchema, ticks>>
       ELSE /\ runs' = [mark EXCEPT ![r] = [begun EXCEPT !.date = today, !.time = ticks]]
            /\ tableSchema' = CreateTablePlain(tableSchema)
            /\ ticks' = ticks + 1
    /\ UNCHANGED <<timeAdapter, attendance, today, dbLock, calls, galleryVars, matcherVars, pipelineVars, mergerVars, readerVars>>

\* SimpleAttendanceSystem.process_classroom_photo, one loop iteration:
\* skip an Unknown result, otherwise mark_attendance (connect, create the
\* table, INSERT, commit, close).  An exception leaves the loop.
mark_attendance(r) ==
    LET run == runs[r]
        res == run.results[run.i]
        row == Row(res.student_id, today, ticks, res.confidence, ImagePath(r))
        out == InsertOutcome(timeAdapter, CreateTablePlain(tableSchema), attendance, row)
        nxt == [run EXCEPT !.i = run.i + 1]
    IN  /\ run.status = "running" /\ run.system = "simple" /\ ~Finished(run)
        /\ IF IsUnknown(res.student_id)
           THEN /\ runs' = [runs EXCEPT ![r] =
                      [nxt EXCEPT !.status = IF Finished(nxt) THEN "done" ELSE "running"]]
                /\ UNCHANGED <<tableSchema, attendance, ticks, calls>>
           ELSE /\ dbLock = 0
                /\ tableSchema' = CreateTablePlain(tableSchema)
                /\ ticks' = ticks + 1
                /\ calls' = Append(calls, Call(r, res.student_id, today,
                                               IF out = "ok" THEN "marked" ELSE out))
                /\ IF out = "ok"
                   THEN /\ attendance' = InsertRow(attendance, row)
                        /\ runs' = [runs EXCEPT ![r] =
                              [nxt EXCEPT !.status = IF Finished(nxt) THEN "done" ELSE "running"]]
                   ELSE /\ attendance' = attendance
                        /\ runs' = [runs EXCEPT ![r] =
                              [run EXCEPT !.status = "failed", !.error = out]]
        /\ UNCHANGED <<timeAdapter, today, dbLock, galleryVars, matcherVars, pipelineVars, mergerVars, readerVars>>

\* OpenCVAttendanceSystem.mark_attendance_batch, one loop iteration: the
\* INSERTs of a batch share one transaction, which holds the write lock.
mark_attendance_batch(r) ==
    LET run == runs[r]
        res == run.results[run.i]
        row == Row(res.student_id, run.date, run.time, res.confidence, ImagePath(r))
        out == InsertOutcome(timeAdapter, tableSchema, attendance \o run.pending, row)
    IN  /\ run.status = "running" /\ run.system = "opencv" /\ ~Finished(run)
        /\ IF IsUnknown(res.student_id)
           THEN /\ runs' = [runs EXCEPT ![r].i = run.i + 1]
                /\ UNCHANGED <<dbLock, calls>>
           ELSE /\ dbLock \in {0, r}
                /\ calls' = Append(calls, Call(r, res.student_id, run.date,
                                               IF out = "ok" THEN "marked" ELSE out))
                /\ IF out = "ok"
                   THEN /\ runs' = [runs EXCEPT ![r].i = run.i + 1,
                                                ![r].pending = InsertRow(run.pending, row)]
                        /\ dbLock' = r
                   ELSE \* the exception leaves the method: the connection is
                        \* dropped uncommitted and its transaction rolled back
                        /\ runs' = [runs EXCEPT ![r].status = "failed", ![r].error = out,
                                                ![r].pending = <<>>]
                        /\ dbLock' = 0
        /\ UNCHANGED <<timeAdapter, tableSchema, attendance, today, ticks, galleryVars, matcherVars, pipelineVars, mergerVars, readerVars>>

\* conn.commit(); conn.close() at the end of mark_attendance_batch
commit_batch(r) ==
    LET run == runs[r]
    IN  /\ run.status = "running" /\ run.system = "opencv" /\ Finished(run)
        /\ attendance' = attendance \o run.pending
        /\ runs' = [runs EXCEPT ![r].status = "done", ![r].pending = <<>>]
        /\ dbLock' = 0
        /\ UNCHANGED <<timeAdapter, tableSchema, today, ticks, calls, galleryVars, matcherVars, pipelineVars, mergerVars, readerVars>>

\* sqlite3.connect's default timeout: an INSERT that waits too long for the
\* write lock of another connection raises OperationalError
lock_timeout(r) ==
    LET run == runs[r]
    IN  /\ run.status = "running" /\ ~Finished(run)
        /\ run.results[run.i].student_id # Unknown
        /\ dbLock \notin {0, r}
        /\ calls' = Append(calls, Call(r, run.results[run.i].student_id,
                                       IF run.system = "simple" THEN today ELSE run.date,
                                       "locked_error"))
        /\ runs' = [runs EXCEPT ![r].status = "failed", ![r].error = "locked_error",
                                ![r].pending = <<>>]
        /\ ticks' = IF run.system = "simple" THEN ticks + 1 ELSE ticks
        /\ UNCHANGED <<timeAdapter, tableSchema, attendance, today, dbLock, galleryVars, matcherVars, pipelineVars, mergerVars, readerVars>>

RecorderNext ==
    \/ InitializeDatabase
    \/ NewDay
    \/ \E r \in Runs, sys \in Systems, ids \in FrameIds : StartRun(r, sys, ids)
    \/ \E r \in Runs : mark_attendance(r)
    \/ \E r \in Runs : mark_attendance_batch(r)
    \/ \E r \in Runs : commit_batch(r)
    \/ \E r \in Runs : lock_timeout(r)

SpecRecorder == RecorderInit /\ [][RecorderNext]_vars

(***************************************************************************)
(* Claims about the attendance recorder                                    *)
(***************************************************************************)
Keys == StudentIds \X Dates

Ended(r) == runs[r].status \in {"done", "failed"}

\* C1: the store holds at most one record per (studentId, date); when
\* recording is invoked twice for the same studentId on the same date, one
\* record is persisted and the second invocation reports a duplicate skip,
\* not an error.
C1_OneRecordPerKeyAndDuplicateSkip ==
    /\ \A k \in Keys : Cardinality(RowsFor(attendance, k[1], k[2])) <= 1
    /\ \A i, j \in DOMAIN calls :
          (i < j /\ calls[i].student_id = calls[j].student_id
                 /\ calls[i].date = calls[j].date /\ dbLock = 0)
          => /\ calls[j].outcome = "duplicate"
             /\ Cardinality(RowsFor(attendance, calls[j].student_id, calls[j].date)) = 1

\* C2: when two runs execute concurrently and both recognise the same
\* student on the same date, every interleaving ends with exactly one record
\* for that (studentId, date) and neither run fails.
C2_ConcurrentRunsOneRecordNoFailure ==
    \A r1, r2 \in Runs, sid \in StudentIds :
        (/\ r1 # r2 /\ Ended(r1) /\ Ended(r2)
         /\ runs[r1].overlapped /\ runs[r2].overlapped
         /\ today = 1
         /\ \E i \in DOMAIN runs[r1].results : runs[r1].results[i].student_id = sid
         /\ \E i \in DOMAIN runs[r2].results : runs[r2].results[i].student_id = sid)
        => /\ Cardinality(RowsFor(attendance, sid, 1)) = 1
           /\ runs[r1].status = "done" /\ runs[r2].status = "done"

FirstRow(rows, sid, d) ==
    rows[CHOOSE i \in RowsFor(rows, sid, d) : \A j \in RowsFor(rows, sid, d) : i <= j]

\* C3: once a record exists for a (studentId, date) key, no later recording
\* attempt changes it: every committed row keeps its fields, and the key's
\* first record (time, confidence, source image) stays the first recognition's.
C3_ExistingRecordNeverChanged ==
    [][ /\ \A i \in DOMAIN attendance :
              i \in DOMAIN attendance' /\ attendance'[i] = attendance[i]
        /\ \A k \in Keys :
              RowsFor(attendance, k[1], k[2]) # {}
              => /\ RowsFor(attendance', k[1], k[2]) # {}
                 /\ FirstRow(attendance', k[1], k[2]) = FirstRow(attendance, k[1], k[2])
      ]_vars

\* a recording attempt was made for a key that already had a committed record
C3_Witness ==
    \E j \in DOMAIN calls :
        /\ calls[j].existed
        /\ calls[j].outcome \in {"marked", "integrity_error"}
        /\ Ended(calls[j].run)

\* the committed records that run r wrote for its frame
RowsOfRun(r) == {i \in DOMAIN attendance : attendance[i].image_path = ImagePath(r)}

Recognised(r) == {i \in DOMAIN runs[r].results : runs[r].results[i].student_id # Unknown}

\* C24: an Unknown match result is never persisted: no attendance record,
\* committed or waiting in a batch's transaction, has the student id
\* 'Unknown', and the number of records written for a frame never exceeds
\* the number of its match results that are not Unknown.
C24_UnknownNeverPersisted ==
    /\ \A i \in DOMAIN attendance : attendance[i].student_id # Unknown
    /\ \A r \in Runs :
          /\ \A i \in DOMAIN runs[r].pending : runs[r].pending[i].student_id # Unknown
          /\ Cardinality(RowsOfRun(r)) + Len(runs[r].pending) <= Cardinality(Recognised(r))

\* a frame with an Unknown face and a recognised one was recorded to the end
C24_Witness ==
    \E r \in Runs :
       /\ runs[r].status = "done"
       /\ \E i \in DOMAIN runs[r].results : runs[r].results[i].student_id = Unknown
       /\ Cardinality(Recognised(r)) = 1
       /\ Cardinality(RowsOfRun(r)) = 1

(***************************************************************************)
(* Matcher                                                                 *)
(***************************************************************************)
EmbeddingDim == 128     \* length of a face_recognition embedding

\* An embedding: its dimension and its position on a line through the
\* embedding space, in hundredths (Euclidean distance = difference of positions).
Embedding(x) == [dim |-> EmbeddingDim, pos |-> x]

Abs(x) == IF x < 0 THEN -x ELSE x

Tolerance == 50             \* face_recognition_tolerance = 0.5
ConfidenceFloor == 35       \* confidence > 0.35
SimpleTolerance == 60       \* best_distance < 0.6
SimpleInitialBest == 100    \* best_distance = 1.0
OpenCVThreshold == 70       \* best_similarity > 0.7

\* face_recognition.face_distance: one Euclidean distance per known encoding
face_distance(known, face) == [i \in DOMAIN known |-> Abs(known[i].pos - face.pos)]

DimensionsAgree(known, face) == \A i \in DOMAIN known : known[i].dim = face.dim

\* face_distance's subtraction known - face (numpy): no encodings give an empty
\* result; otherwise the encodings must form one array, whose rows are then
\* broadcast against the face (equal lengths, or one of them of length 1)
Broadcasts(known, face) ==
    \/ known = <<>>
    \/ /\ \A i \in DOMAIN known : known[i].dim = known[1].dim
       /\ known[1].dim = face.dim \/ known[1].dim = 1 \/ face.dim = 1

\* face_recognition.compare_faces: distance <= tolerance, per known encoding
compare_faces(known, face, tolerance) ==
    [i \in DOMAIN known |-> face_distance(known, face)[i] <= tolerance]

\* np.argmin: the first index holding the minimum
ArgMin(ds) == CHOOSE i \in DOMAIN ds :
                 /\ \A j \in DOMAIN ds : ds[i] <= ds[j]
                 /\ \A j \in DOMAIN ds : (j < i) => ds[j] > ds[i]

Min(ds) == ds[ArgMin(ds)]

StudentName(db, sid) == IF sid \in DOMAIN db THEN db[sid].name ELSE "Unknown"

\* recognize_faces_in_image, the branch taken when the best match's student
\* was already recognised in this frame: only a debug log line
DuplicateFace(acc) == acc

\* a loop body that drops the face without counting it
RecognizeFaceUncounted(acc, face, i) == acc

\* a loop body in which a later face takes the student from an earlier one
RecognizeFaceLatestWins(acc, face, i) ==
    LET dists == face_distance(known_face_encodings, face)
        best  == ArgMin(dists)
        sid   == known_face_names[best]
        conf  == 100 - dists[best]
    IN  IF known_face_encodings # <<>> /\ dists[best] <= Tolerance /\ conf > ConfidenceFloor
        THEN [acc EXCEPT
                !.recognized_students =
                    Append(SelectSeq(acc.recognized_students,
                                     LAMBDA r : r.student_id # sid),
                           [student_id |-> sid,
                            student_name |-> StudentName(student_database, sid),
                            confidence |-> conf, face |-> i]),
                !.ids = acc.ids \cup {sid}]
        ELSE [acc EXCEPT !.unknown_faces = acc.unknown_faces + 1]

\* recognize_faces_in_image, the body of the loop over face_encodings
RecognizeFace(acc, face, i) ==
    LET matches == compare_faces(known_face_encodings, face, Tolerance)
        dists   == face_distance(known_face_encodings, face)
        best    == ArgMin(dists)
        sid     == known_face_names[best]
        conf    == 100 - dists[best]
        miss    == [acc EXCEPT !.unknown_faces = acc.unknown_faces + 1]
    IN  IF TRUE \in Range(matches)
        THEN IF matches[best]
             THEN IF sid \notin acc.ids
                  THEN IF conf > ConfidenceFloor
                       THEN [acc EXCEPT
                               !.recognized_students = Append(acc.recognized_students,
                                   [student_id |-> sid,
                                    student_name |-> StudentName(student_database, sid),
                                    confidence |-> conf, face |-> i]),
                               !.ids = acc.ids \cup {sid}]
                       ELSE miss
                  ELSE DuplicateFace(acc)
             ELSE miss
        ELSE miss

RECURSIVE RecognizeLoop(_, _, _)
RecognizeLoop(acc, faces, i) ==
    IF i > Len(faces) THEN acc
    ELSE RecognizeLoop(RecognizeFace(acc, faces[i], i), faces, i + 1)

\* recognize_faces_in_image(image_path), given the embeddings of the frame's
\* faces (kept in the result as frame, to state properties of the match)
RecognizeResult(faces) ==
    IF faces = <<>>
    THEN [op |-> "recognize_faces_in_image", success |-> FALSE,
          message |-> "No faces detected in the image",
          recognized_students |-> <<>>, total_faces |-> 0, frame |-> faces]
    ELSE IF \E i \in DOMAIN faces : ~Broadcasts(known_face_encodings, faces[i])
    THEN [op |-> "recognize_faces_in_image", success |-> FALSE,
          message |-> "Error processing image",
          recognized_students |-> <<>>, total_faces |-> 0, frame |-> faces]
    ELSE LET acc == RecognizeLoop([recognized_students |-> <<>>, unknown_faces |-> 0,
                                   ids |-> {}], faces, 1)
         IN  [op |-> "recognize_faces_in_image", success |-> TRUE,
              recognized_students |-> acc.recognized_students,
              total_faces |-> Len(faces),
              recognized_count |-> Len(acc.recognized_students),
              unknown_faces |-> acc.unknown_faces,
              face_encodings |-> Len(faces), frame |-> faces]

\* SimpleAttendanceSystem.detect_faces_in_image: the loop over the students
\* of the ordered dict, keeping the strictly smaller minimum distance
RECURSIVE SimpleBest(_, _, _, _)
SimpleBest(dict, face, k, best) ==
    IF k > Len(dict) THEN best
    ELSE LET m == Min(face_distance(dict[k].encodings, face))
         IN  SimpleBest(dict, face, k + 1,
                        IF m < best.distance
                        THEN [match |-> dict[k].student_id, distance |-> m]
                        ELSE best)

\* the result SimpleAttendanceSystem.detect_faces_in_image appends for one face
SimpleFaceResult(dict, face) ==
    LET best == SimpleBest(dict, face, 1, [match |-> "None", distance |-> SimpleInitialBest])
    IN  IF best.match # "None" /\ best.distance < SimpleTolerance
        THEN MatchResult(best.match, 100 - best.distance)
        ELSE MatchResult(Unknown, 0)

\* OpenCVAttendanceSystem.compare_faces_simple: histogram correlation of the
\* face with the student's reference photo
compare_faces_simple(face, ref) == 100 - Abs(face.pos - ref.pos)

RECURSIVE OpenCVBest(_, _, _, _)
OpenCVBest(dict, face, k, best) ==
    IF k > Len(dict) THEN best
    ELSE LET sim == compare_faces_simple(face, dict[k].photo)
         IN  OpenCVBest(dict, face, k + 1,
                        IF sim > best.similarity
                        THEN [match |-> dict[k].student_id, similarity |-> sim]
                        ELSE best)

\* the result OpenCVAttendanceSystem.process_classroom_photo appends for one face
OpenCVFaceResult(dict, face) ==
    LET best == OpenCVBest(dict, face, 1, [match |-> "None", similarity |-> 0])
    IN  IF best.match # "None" /\ best.similarity > OpenCVThreshold
        THEN MatchResult(best.match, best.similarity)
        ELSE MatchResult(Unknown, best.similarity)

(***************************************************************************)
(* Matcher inputs: a gallery of (embedding, student) pairs and a frame     *)
(***************************************************************************)
MaxGallery == 2

GalleryPositions == {0, 40, 100}
FacePositions == {0, 10, 50, 60}

\* embeddings of other lengths, as an artifact written by another embedder
\* (or by hand) may hold: np.array(enc) accepts any list
ForeignEmbeddings == {[dim |-> 64, pos |-> 0], [dim |-> 1, pos |-> 0]}

GalleryPairs == {[encoding |-> e, student_id |-> sid] :
                    e \in {Embedding(x) : x \in GalleryPositions} \cup ForeignEmbeddings,
                    sid \in StudentIds}

\* the pairs whose embedding face_recognition.face_encodings produced
OwnPairs(pairs) == SelectSeq(pairs, LAMBDA p : p.encoding.dim = EmbeddingDim)

FaceFrames == SeqsUpTo({Embedding(x) : x \in FacePositions}, MaxFaces)

\* the ids of a sequence of pairs in first-appearance order
RECURSIVE IdsInOrder(_)
IdsInOrder(pairs) ==
    IF pairs = <<>> THEN <<>>
    ELSE LET rest == IdsInOrder(SubSeq(pairs, 1, Len(pairs) - 1))
             sid  == pairs[Len(pairs)].student_id
         IN  IF sid \in Range(rest) THEN rest ELSE Append(rest, sid)

EncodingsOf(pairs, sid) ==
    LET F[k \in 0..Len(pairs)] ==
            IF k = 0 THEN <<>>
            ELSE IF pairs[k].student_id = sid THEN Append(F[k - 1], pairs[k].encoding)
                 ELSE F[k - 1]
    IN  F[Len(pairs)]

StudentRecord(name, encodings, registered, images) ==
    [name |-> name, encodings |-> encodings, registered_date |-> registered,
     image_count |-> images, total_encodings |-> Len(encodings)]

MatcherInit ==
    /\ timeAdapter = FALSE
    /\ tableSchema = "none"
    /\ attendance = <<>>
    /\ today = 1
    /\ ticks = 1
    /\ runs = [r \in Runs |-> IdleRun]
    /\ dbLock = 0
    /\ calls = <<>>
    /\ \E pairs \in SeqsUpTo(GalleryPairs, MaxGallery) :
          LET ids == IdsInOrder(pairs)
          IN  /\ known_face_encodings = [i \in DOMAIN pairs |-> pairs[i].encoding]
              /\ known_face_names = [i \in DOMAIN pairs |-> pairs[i].student_id]
              /\ student_database = [sid \in Range(ids) |->
                    StudentRecord(sid, EncodingsOf(pairs, sid), 0,
                                  Len(EncodingsOf(pairs, sid)))]
              \* the stand-alone systems encode their own reference photos
              /\ student_encodings = [k \in DOMAIN IdsInOrder(OwnPairs(pairs)) |->
                    [student_id |-> IdsInOrder(OwnPairs(pairs))[k],
                     encodings |-> EncodingsOf(OwnPairs(pairs),
                                               IdsInOrder(OwnPairs(pairs))[k])]]
              /\ student_photos = [k \in DOMAIN IdsInOrder(OwnPairs(pairs)) |->
                    [student_id |-> IdsInOrder(OwnPairs(pairs))[k],
                     photo |-> EncodingsOf(OwnPairs(pairs),
                                           IdsInOrder(OwnPairs(pairs))[k])[1]]]
    /\ matchOut = NoMatch
    /\ PipelineUnused
    /\ MergerUnused
    /\ ReaderUnused

\* The matchers keep no state between calls: a behaviour matches one frame.
\* flask_api.recognize_faces_in_image
recognize_faces_in_image(faces) ==
    /\ matchOut = NoMatch
    /\ matchOut' = RecognizeResult(faces)
    /\ UNCHANGED <<recorderVars, galleryVars, student_encodings, student_photos, pipelineVars, mergerVars, readerVars>>

\* SimpleAttendanceSystem.detect_faces_in_image
detect_faces_in_image(faces) ==
    /\ matchOut = NoMatch
    /\ matchOut' = [op |-> "detect_faces_in_image", faces |-> Len(faces), frame |-> faces,
                    results |-> [i \in DOMAIN faces |->
                                    SimpleFaceResult(student_encodings, faces[i])]]
    /\ UNCHANGED <<recorderVars, galleryVars, student_encodings, student_photos, pipelineVars, mergerVars, readerVars>>

\* OpenCVAttendanceSystem.process_classroom_photo, the matching of its faces
process_classroom_photo(faces) ==
    /\ matchOut = NoMatch
    /\ faces # <<>>
    /\ matchOut' = [op |-> "process_classroom_photo", faces |-> Len(faces), frame |-> faces,
                    results |-> [i \in DOMAIN faces |->
                                    OpenCVFaceResult(student_photos, faces[i])]]
    /\ UNCHANGED <<recorderVars, galleryVars, student_encodings, student_photos, pipelineVars, mergerVars, readerVars>>

MatcherNext ==
    \/ \E faces \in FaceFrames : recognize_faces_in_image(faces)
    \/ \E faces \in FaceFrames : detect_faces_in_image(faces)
    \/ \E faces \in FaceFrames : process_classroom_photo(faces)

SpecMatcher == MatcherInit /\ [][MatcherNext]_vars

\* the non-Unknown student ids of the last match, one per result
MatchedIds ==
    IF matchOut.op = "none" THEN <<>>
    ELSE IF matchOut.op = "recognize_faces_in_image"
    THEN [i \in DOMAIN matchOut.recognized_students |->
             matchOut.recognized_students[i].student_id]
    ELSE LET idx == {i \in DOMAIN matchOut.results : matchOut.results[i].student_id # Unknown}
             F[k \in 0..Len(matchOut.results)] ==
                 IF k = 0 THEN <<>>
                 ELSE IF k \in idx THEN Append(F[k - 1], matchOut.results[k].student_id)
                      ELSE F[k - 1]
         IN  F[Len(matchOut.results)]

\* C4: the match results of a frame hold each non-Unknown studentId at most
\* once, whichever matcher processed the frame.
C4_NoStudentTwiceInFrame ==
    \A i, j \in DOMAIN MatchedIds : MatchedIds[i] = MatchedIds[j] => i = j

\* C5: for every successful recognize_faces_in_image call,
\* recognized_count + unknown_faces equals the number of face embeddings
\* processed.
C5_OneOutcomePerFace ==
    (matchOut.op = "recognize_faces_in_image" /\ matchOut.success)
    => matchOut.recognized_count + matchOut.unknown_faces = matchOut.face_encodings

\* the distance from a face to the nearest embedding of the flask gallery
NearestDistance(face) == Min(face_distance(known_face_encodings, face))

\* the faces of the frame that recognize_faces_in_image assigned to a student
AssignedFaces == {matchOut.recognized_students[k].face :
                     k \in DOMAIN matchOut.recognized_students}

\* the distance from a face to the nearest embedding of SimpleAttendanceSystem
SimpleNearest(face) ==
    LET ds == UNION {{Abs(student_encodings[k].encodings[j].pos - face.pos) :
                         j \in DOMAIN student_encodings[k].encodings} :
                     k \in DOMAIN student_encodings}
    IN  CHOOSE d \in ds : \A e \in ds : d <= e

\* C12: threshold exclusivity. A face whose nearest gallery distance equals
\* the tolerance is Unknown; a face strictly below it (passing the confidence
\* floor, and first in its frame) is assigned to the owner of the nearest
\* embedding. For recognize_faces_in_image and for detect_faces_in_image.
C12_ThresholdExclusive ==
    /\ ( /\ matchOut.op = "recognize_faces_in_image"
         /\ matchOut.success
         /\ known_face_encodings # <<>>
         /\ \A i \in DOMAIN matchOut.frame :
               DimensionsAgree(known_face_encodings, matchOut.frame[i]) )
       => \A i \in DOMAIN matchOut.frame :
             LET d == NearestDistance(matchOut.frame[i])
             IN  /\ d = Tolerance => i \notin AssignedFaces
                 /\ (d < Tolerance /\ 100 - d > ConfidenceFloor /\ i = 1)
                    => \E k \in DOMAIN matchOut.recognized_students :
                          /\ matchOut.recognized_students[k].face = i
                          /\ matchOut.recognized_students[k].student_id =
                                known_face_names[ArgMin(face_distance(known_face_encodings,
                                                                      matchOut.frame[i]))]
    /\ ( /\ matchOut.op = "detect_faces_in_image"
         /\ student_encodings # <<>> )
       => \A i \in DOMAIN matchOut.frame :
             LET d == SimpleNearest(matchOut.frame[i])
             IN  /\ d = SimpleTolerance => matchOut.results[i].student_id = Unknown
                 /\ d < SimpleTolerance
                    => \E k \in DOMAIN student_encodings :
                          /\ matchOut.results[i].student_id = student_encodings[k].student_id
                          /\ d = Min(face_distance(student_encodings[k].encodings,
                                                   matchOut.frame[i]))

\* C13: against an empty gallery no student is recognised; for a frame with
\* faces the match completes without an error result, every face is Unknown
\* with confidence 0, and the unknown count is the number of faces.
C13_EmptyGalleryAllUnknown ==
    /\ ( /\ matchOut.op = "recognize_faces_in_image"
         /\ known_face_encodings = <<>> )
       => /\ matchOut.recognized_students = <<>>
          /\ matchOut.frame # <<>>
             => /\ matchOut.success
                /\ matchOut.recognized_count = 0
                /\ matchOut.unknown_faces = Len(matchOut.frame)
    /\ ( /\ matchOut.op = "detect_faces_in_image"
         /\ student_encodings = <<>> )
       => /\ Len(matchOut.results) = Len(matchOut.frame)
          /\ \A i \in DOMAIN matchOut.results :
                matchOut.results[i] = MatchResult(Unknown, 0)
    /\ ( /\ matchOut.op = "process_classroom_photo"
         /\ student_photos = <<>> )
       => /\ Len(matchOut.results) = Len(matchOut.frame)
          /\ \A i \in DOMAIN matchOut.results :
                matchOut.results[i] = MatchResult(Unknown, 0)

\* a frame of two or more faces was matched against the empty gallery
C13_Witness ==
    /\ matchOut.op = "recognize_faces_in_image"
    /\ known_face_encodings = <<>>
    /\ Len(matchOut.frame) >= 2
    /\ matchOut.unknown_faces = Len(matchOut.frame)

\* C15: when the dimension of a face's embedding differs from that of the
\* gallery's embeddings, recognize_faces_in_image fails: it returns no normal
\* result in which faces are counted as Unknown or students are recognised.
C15_DimensionMismatchFails ==
    ( /\ matchOut.op = "recognize_faces_in_image"
      /\ \E i \in DOMAIN matchOut.frame :
            ~DimensionsAgree(known_face_encodings, matchOut.frame[i]) )
    => /\ ~matchOut.success
       /\ matchOut.recognized_students = <<>>

\* the student owning the gallery embedding nearest to the face
Candidate(face) == known_face_names[ArgMin(face_distance(known_face_encodings, face))]

\* the face passes the tolerance and the confidence floor
Passes(face) ==
    /\ NearestDistance(face) <= Tolerance
    /\ 100 - NearestDistance(face) > ConfidenceFloor

\* the first face of the frame that passes with the same candidate as face i
FirstPassing(i) ==
    CHOOSE j \in DOMAIN matchOut.frame :
       /\ Passes(matchOut.frame[j])
       /\ Candidate(matchOut.frame[j]) = Candidate(matchOut.frame[i])
       /\ \A h \in 1..(j - 1) :
             ~(Passes(matchOut.frame[h])
               /\ Candidate(matchOut.frame[h]) = Candidate(matchOut.frame[i]))

MaxImages == 2      \* images per student folder
MaxCalls == 3       \* top-level calls made on one object, the constructor included

FolderNames == <<"a", "b", "student_1">>    \* the possible folders, in listing order

\* folder a holds up to MaxImages images, the other folders at most one
MaxImagesOf(f) == IF f = "a" THEN MaxImages ELSE 1

\* the student ids register_student is called with directly
ApiStudents == {"A"}

\* folder_name.upper()
upper(f) == CASE f = "a" -> "A" [] f = "b" -> "B" [] f = "student_1" -> "STUDENT_1"

\* folder_name.replace('_', ' ').title()
title(f) == CASE f = "a" -> "A" [] f = "b" -> "B" [] f = "student_1" -> "Student 1"

\* filename.startswith('STUDENT_')
startswith_STUDENT(name) == name \in {"STUDENT_1"}

\* glob.glob(os.path.join(encodings_path, "*.json")): the artifact names in
\* directory order
ArtifactOrder == <<"A", "B", "STUDENT_1">>

EmptyMap == <<>>

Put(f, k, v) == [x \in (DOMAIN f) \cup {k} |-> IF x = k THEN v ELSE f[x]]

\* where the embeddings of a folder's photos lie
FolderBase(f) == CASE f = "a" -> 0 [] f = "b" -> 40 [] f = "student_1" -> 100

ImagePaths(f) == [j \in DOMAIN photos[f] |-> [folder |-> f, index |-> j]]

\* get_student_images: the sorted image paths of a student folder
get_student_images(f) == ImagePaths(f)

None == <<>>

\* process_single_image: the first face's encoding (as a one-element tuple), or None
process_single_image(path) ==
    IF photos[path.folder][path.index] = "face"
    THEN <<Embedding(FolderBase(path.folder) + path.index)>>
    ELSE None

\* ndarray.tolist() and np.array(list): the two forms of an embedding
tolist(enc) == [list |-> <<enc.pos>>, len |-> enc.dim]

np_array(l) == [dim |-> l.len, pos |-> l.list[1]]

\* the JSON document save_precomputed_encoding writes
Artifact(data) ==
    [valid |-> TRUE, name |-> data.name,
     encodings |-> [i \in DOMAIN data.encodings |-> tolist(data.encodings[i])],
     registered_date |-> data.registered_date, image_count |-> data.image_count,
     total_encodings |-> data.total_encodings]

\* a file that open(..., 'w') created and json.dump did not finish
PartialArtifact == [valid |-> FALSE]

SaveOutcomes == {"ok", "unavailable", "partial"}

\* save_precomputed_encoding: write <student_id>.json; an exception is logged
\* and swallowed
save_precomputed_encoding(fs, student_id, encoding_data, outcome) ==
    CASE outcome = "ok" -> Put(fs, student_id, Artifact(encoding_data))
      [] outcome = "partial" -> Put(fs, student_id, PartialArtifact)
      [] outcome = "unavailable" -> fs

\* a load that adds the artifact's encodings whether or not the student is
\* already in student_database
LoadArtifactAlways(g, fs, student_id) ==
    IF startswith_STUDENT(student_id) \/ ~fs[student_id].valid THEN g
    ELSE IF {"name", "encodings"} \ DOMAIN fs[student_id] # {} THEN g
    ELSE LET data == fs[student_id]
             encodings == [i \in DOMAIN data.encodings |-> np_array(data.encodings[i])]
         IN  [db |-> Put(g.db, student_id,
                         StudentRecord(data.name, encodings, data.registered_date,
                                       data.image_count)),
              encodings |-> g.encodings \o encodings,
              names |-> g.names \o [i \in DOMAIN encodings |-> student_id],
              loaded_count |-> g.loaded_count + 1]

\* load_precomputed_encodings, the body of the loop over the artifact files
LoadArtifact(g, fs, student_id) ==
    IF startswith_STUDENT(student_id) THEN g
    ELSE IF ~fs[student_id].valid THEN g          \* json.load raises: logged, skipped
    ELSE IF student_id \in DOMAIN g.db THEN g
    ELSE IF "encodings" \notin DOMAIN fs[student_id] THEN g    \* KeyError: logged, skipped
    ELSE IF "name" \notin DOMAIN fs[student_id] THEN g         \* KeyError: logged, skipped
    ELSE LET data == fs[student_id]
             encodings == [i \in DOMAIN data.encodings |-> np_array(data.encodings[i])]
         IN  [db |-> Put(g.db, student_id,
                         StudentRecord(data.name, encodings, data.registered_date,
                                       data.image_count)),
              encodings |-> g.encodings \o encodings,
              names |-> g.names \o [i \in DOMAIN encodings |-> student_id],
              loaded_count |-> g.loaded_count + 1]

RECURSIVE LoadArtifacts(_, _, _)
LoadArtifacts(g, fs, k) ==
    IF k > Len(ArtifactOrder) THEN g
    ELSE IF ArtifactOrder[k] \in DOMAIN fs
         THEN LoadArtifacts(LoadArtifact(g, fs, ArtifactOrder[k]), fs, k + 1)
         ELSE LoadArtifacts(g, fs, k + 1)

\* load_precomputed_encodings on gallery (db, encodings, names): the gallery
\* after it, with loaded_count
LoadPrecomputed(db, encodings, names, fs) ==
    LoadArtifacts([db |-> db, encodings |-> encodings, names |-> names,
                   loaded_count |-> 0], fs, 1)

\* os.path.exists of the wrong file: the folder's name instead of the student id
ArtifactExistsForFolder(fs, f) == f \in DOMAIN fs

\* os.path.exists(os.path.join(encodings_path, f"{student_id}.json"))
ArtifactExists(fs, f) == upper(f) \in DOMAIN fs

\* the artifacts batch_register_from_folders counts: not STUDENT_xxx
existing_encodings(fs) == {id \in DOMAIN fs : ~startswith_STUDENT(id)}

FromPrecomputed(f) ==
    [success |-> TRUE, student_id |-> upper(f), student_name |-> title(f),
     images |-> "N/A", encodings |-> "N/A", from_precomputed |-> TRUE]

Failure(message, images) == [success |-> FALSE, message |-> message, images |-> images]

Count(details, ok) == Cardinality({f \in DOMAIN details : details[f].success = ok})

Results(total, details) ==
    [total_students |-> total, successful |-> Count(details, TRUE),
     failed |-> Count(details, FALSE), details |-> details]

\* a batch that stops at the first student whose registration fails
TodoAfterAbortOnFailure(todo, success) == IF success THEN Tail(todo) ELSE <<>>

\* the for loop of batch_register_from_folders goes on to the next folder
\* whatever the outcome
TodoAfter(todo, success) == Tail(todo)

Idle == ~reg.active /\ ~batch.active

LoadOps == {"load_precomputed_encodings", "load_student_database"}

\* the record of a completed top-level call: its name, its number, what it
\* returned, the artifact store it started from, and whether the call before
\* it was the same call, started from the same store
Return(op, seq, value, fb) ==
    [op |-> op, seq |-> seq, value |-> value, filesBefore |-> fb,
     repeats |-> /\ ret.op = op
                 /\ ret.seq + 1 = seq
                 /\ ret.filesBefore = fb]

PipelineInit ==
    /\ timeAdapter = FALSE
    /\ tableSchema = "none"
    /\ attendance = <<>>
    /\ today = 1
    /\ ticks = 1
    /\ runs = [r \in Runs |-> IdleRun]
    /\ dbLock = 0
    /\ calls = <<>>
    /\ student_encodings = <<>>
    /\ student_photos = <<>>
    /\ matchOut = NoMatch
    \* the data structures __init__ creates, before it loads the database
    /\ known_face_encodings = <<>>
    /\ known_face_names = <<>>
    /\ student_database = EmptyMap
    /\ files = EmptyMap
    /\ \E present \in SUBSET Range(FolderNames) :
          /\ folders = SelectSeq(FolderNames, LAMBDA f : f \in present)
          /\ photos \in [present -> SeqsUpTo({"face", "none"}, MaxImages)]
          /\ \A f \in present : Len(photos[f]) <= MaxImagesOf(f)
    /\ reg = NoRegistration
    /\ batch = NoBatch
    /\ ret = NoReturn
    /\ nCalls = 0
    /\ disk \in SaveOutcomes
    /\ MergerUnused
    /\ ReaderUnused

notPipeline == <<timeAdapter, tableSchema, attendance, today, runs, dbLock, calls,
                 student_encodings, student_photos, matchOut, mergerVars, readerVars>>

\* the artifact directory becomes writable, unwritable or full once the
\* object is constructed, before the calls that follow
disk_changes(outcome) ==
    /\ Idle /\ nCalls = 1 /\ nCalls < MaxCalls
    /\ outcome # disk
    /\ disk' = outcome
    /\ UNCHANGED <<notPipeline, galleryVars, ticks, files, folders, photos, reg, batch, ret,
                   nCalls>>

\* executor.submit(self.process_single_image, image_path) for every path
Submit(student_id, student_name, image_paths, caller, folder) ==
    [active |-> TRUE, student_id |-> student_id, student_name |-> student_name,
     image_paths |-> image_paths, pending |-> DOMAIN image_paths,
     all_encodings |-> <<>>, successful_images |-> 0,
     caller |-> caller, folder |-> folder, filesBefore |-> files]

\* batch_register_from_folders up to its first register_student call:
\* either it returns at once, or it leaves the folders still to process
BatchBegin(op, seq) ==
    LET have == {f \in Range(folders) : ArtifactExists(files, f)}
    IN  IF folders = <<>>
        THEN /\ batch' = NoBatch
             /\ ret' = Return(op, seq,
                    [loaded |-> FALSE, returned |-> "no_folders", processed |-> {},
                     results |-> Failure("No student folders found", 0)], files)
        ELSE IF Cardinality(existing_encodings(files)) >= Len(folders)
        THEN /\ batch' = NoBatch
             /\ ret' = Return(op, seq,
                    [loaded |-> FALSE, returned |-> "results", processed |-> {},
                     results |-> Results(Len(folders),
                        [f \in Range(folders) |->
                            IF f \in have THEN FromPrecomputed(f)
                            ELSE Failure("No existing encoding found", 0)])], files)
        ELSE /\ batch' = [active |-> TRUE, op |-> op, seq |-> seq,
                          todo |-> SelectSeq(folders, LAMBDA f : f \notin have),
                          details |-> [f \in have |-> FromPrecomputed(f)],
                          processed |-> {}, filesBefore |-> files]
             /\ ret' = ret

\* load_student_database (also the last step of __init__): clear the gallery,
\* load the artifacts, and register from the folders if none was loaded
load_student_database ==
    LET g == LoadPrecomputed(EmptyMap, <<>>, <<>>, files)
        success == DOMAIN files # {} /\ g.loaded_count > 0
    IN  /\ Idle /\ nCalls < MaxCalls
        /\ nCalls' = nCalls + 1
        /\ student_database' = g.db
        /\ known_face_encodings' = g.encodings
        /\ known_face_names' = g.names
        /\ IF success
           THEN /\ ret' = Return("load_student_database", nCalls + 1,
                                 [loaded |-> TRUE, returned |-> "loaded"], files)
                /\ batch' = batch
           ELSE BatchBegin("load_student_database", nCalls + 1)
        /\ UNCHANGED <<notPipeline, ticks, files, folders, photos, reg, disk>>

\* load_precomputed_encodings called on the constructed object
load_precomputed_encodings ==
    LET g == LoadPrecomputed(student_database, known_face_encodings, known_face_names, files)
    IN  /\ Idle /\ 1 <= nCalls /\ nCalls < MaxCalls
        /\ nCalls' = nCalls + 1
        /\ student_database' = g.db
        /\ known_face_encodings' = g.encodings
        /\ known_face_names' = g.names
        /\ ret' = Return("load_precomputed_encodings", nCalls + 1,
                         [loaded |-> DOMAIN files # {} /\ g.loaded_count > 0], files)
        /\ UNCHANGED <<notPipeline, ticks, files, folders, photos, reg, batch, disk>>

\* batch_register_from_folders called on the constructed object
batch_register_from_folders ==
    /\ Idle /\ 1 <= nCalls /\ nCalls < MaxCalls
    /\ nCalls' = nCalls + 1
    /\ BatchBegin("batch_register_from_folders", nCalls + 1)
    /\ UNCHANGED <<notPipeline, galleryVars, ticks, files, folders, photos, reg, disk>>

\* the loop of batch_register_from_folders over students_to_process: a folder
\* without images fails at once, the others go to register_student
batch_next ==
    LET f == Head(batch.todo)
    IN  /\ batch.active /\ ~reg.active /\ batch.todo # <<>>
        /\ IF get_student_images(f) = <<>>
           THEN /\ batch' = [batch EXCEPT
                       !.details = Put(batch.details, f, Failure("No images found", 0)),
                       !.todo = TodoAfter(batch.todo, FALSE)]
                /\ reg' = reg
           ELSE /\ batch' = [batch EXCEPT !.processed = batch.processed \cup {f}]
                /\ reg' = Submit(upper(f), title(f), get_student_images(f), "batch", f)
        /\ UNCHANGED <<notPipeline, galleryVars, ticks, files, folders, photos, ret, nCalls, disk>>

\* the end of batch_register_from_folders: save_student_database (a pickle
\* nothing reads back) and return results
batch_return ==
    /\ batch.active /\ ~reg.active /\ batch.todo = <<>>
    /\ ret' = Return(batch.op, batch.seq,
                     [loaded |-> FALSE, returned |-> "results",
                      processed |-> batch.processed,
                      results |-> Results(Len(folders), batch.details)],
                     batch.filesBefore)
    /\ batch' = NoBatch
    /\ UNCHANGED <<notPipeline, galleryVars, ticks, files, folders, photos, reg, nCalls, disk>>

\* register_student called on the constructed object, with the images of a folder
register_student(student_id, f) ==
    /\ Idle /\ 1 <= nCalls /\ nCalls < MaxCalls
    /\ nCalls' = nCalls + 1
    /\ reg' = Submit(student_id, student_id, get_student_images(f), "api", f)
    /\ UNCHANGED <<notPipeline, galleryVars, ticks, files, folders, photos, batch, ret, disk>>

\* the image's process_single_image call never returns
Hangs(path) == photos[path.folder][path.index] = "hang"

\* as_completed yields one finished future: its encoding, if any, is appended
task_complete(i) ==
    LET encoding == process_single_image(reg.image_paths[i])
    IN  /\ reg.active /\ i \in reg.pending
        /\ ~Hangs(reg.image_paths[i])
        /\ reg' = IF encoding # None
                  THEN [reg EXCEPT !.pending = reg.pending \ {i},
                                   !.all_encodings = Append(reg.all_encodings, encoding[1]),
                                   !.successful_images = reg.successful_images + 1]
                  ELSE [reg EXCEPT !.pending = reg.pending \ {i}]
        /\ UNCHANGED <<notPipeline, galleryVars, ticks, files, folders, photos, batch, ret,
                       nCalls, disk>>

\* what register_student's caller does with the returned value
RegisterReturns(success, images, encodings) ==
    IF reg.caller = "batch"
    THEN /\ batch' = [batch EXCEPT
                !.details = Put(batch.details, reg.folder,
                    IF success
                    THEN [success |-> TRUE, student_id |-> reg.student_id,
                          student_name |-> reg.student_name, images |-> images,
                          encodings |-> encodings, from_precomputed |-> FALSE]
                    ELSE Failure("Registration failed", images)),
                !.todo = TodoAfter(batch.todo, success)]
         /\ ret' = ret
    ELSE /\ batch' = batch
         /\ ret' = Return("register_student", nCalls,
                          [loaded |-> FALSE, success |-> success,
                           student_id |-> reg.student_id], reg.filesBefore)

\* a pool that lets the caller go on once the first task has finished
AllDoneFirst(r) == r.pending # DOMAIN r.image_paths \/ r.image_paths = <<>>

\* as_completed is exhausted and the with-block of the pool has been left:
\* every submitted task has returned or raised
AllDone(r) == r.pending = {}

\* a registration that stores the student before it looks at the encodings
StoresStudentAlways(all_encodings) == TRUE

\* if not all_encodings: return False, ahead of every assignment
StoresStudent(all_encodings) == all_encodings # <<>>

\* register_student after the pool has shut down: without encodings it
\* returns False; otherwise it stores the student, extends the flattened
\* lookup sequence, saves the artifact and returns True
register_finish ==
    /\ reg.active /\ AllDone(reg)
    /\ reg' = NoRegistration
    /\ IF ~StoresStudent(reg.all_encodings)
       THEN /\ RegisterReturns(FALSE, Len(reg.image_paths), 0)
            /\ UNCHANGED <<galleryVars, ticks, files>>
       ELSE LET student_data == StudentRecord(reg.student_name, reg.all_encodings, ticks,
                                              reg.successful_images)
            IN  /\ student_database' = Put(student_database, reg.student_id, student_data)
                 /\ known_face_encodings' = known_face_encodings \o reg.all_encodings
                 /\ known_face_names' = known_face_names \o
                        [i \in DOMAIN reg.all_encodings |-> reg.student_id]
                 /\ files' = save_precomputed_encoding(files, reg.student_id, student_data,
                                                       disk)
                 /\ ticks' = ticks + 1
                 /\ RegisterReturns(reg.all_encodings # <<>>, Len(reg.image_paths),
                                    Len(reg.all_encodings))
    /\ UNCHANGED <<notPipeline, folders, photos, nCalls, disk>>

PipelineNext ==
    \/ load_student_database
    \/ load_precomputed_encodings
    \/ batch_register_from_folders
    \/ batch_next
    \/ batch_return
    \/ \E student_id \in ApiStudents, f \in Range(folders) : register_student(student_id, f)
    \/ \E i \in 1..MaxImages : task_complete(i)
    \/ register_finish
    \/ \E outcome \in SaveOutcomes : disk_changes(outcome)

SpecPipeline == PipelineInit /\ [][PipelineNext]_vars

(***************************************************************************)
(* Properties of the gallery and the registration pipeline                 *)
(***************************************************************************)
BatchOps == {"batch_register_from_folders", "load_student_database"}

\* batch_register_from_folders has just returned its results (called directly
\* or by load_student_database)
BatchReturned ==
    /\ Idle
    /\ ret.op \in BatchOps
    /\ ~ret.value.loaded
    /\ ret.value.returned = "results"

\* the (embedding, studentId) pairs of the flattened lookup sequence
FlatPairs ==
    {<<known_face_encodings[i], known_face_names[i]>> : i \in DOMAIN known_face_names}

\* the (embedding, studentId) pairs of the per-student map
MapPairs ==
    UNION {{<<student_database[id].encodings[j], id>> :
                j \in DOMAIN student_database[id].encodings} :
           id \in DOMAIN student_database}

\* C6: after every gallery mutation (no call in progress), the flattened
\* lookup sequence holds exactly the (embedding, studentId) pairs of
\* student_database: none is missing, and none refers to an embedding that is
\* no longer in that student's set.
C6_FlatSequenceMatchesMap ==
    Idle => /\ Len(known_face_encodings) = Len(known_face_names)
            /\ FlatPairs = MapPairs

\* C7: loading is idempotent. When the call that completes is the same load
\* as the call before it, started from the same artifact store (for
\* load_student_database: a load of artifacts, not its registration
\* fallback), it leaves student_database and the flattened lookup sequence
\* as the first load left them.
C7_LoadingTwiceIsLoadingOnce ==
    [][ ( /\ ret.op \in LoadOps
          /\ ret'.op = ret.op
          /\ ret'.seq = ret.seq + 1
          /\ ret'.filesBefore = ret.filesBefore
          /\ (ret.op = "load_student_database" => ret.value.loaded) )
        => UNCHANGED galleryVars
      ]_vars

\* load_student_database has loaded the same artifacts twice in a row
C7_Witness ==
    /\ ret.op = "load_student_database"
    /\ ret.repeats
    /\ ret.value.loaded
    /\ student_database # EmptyMap
    /\ known_face_encodings # <<>>

\* C8: persistence round trip. When load_student_database has loaded the
\* artifact store into the emptied gallery, every artifact that
\* save_precomputed_encoding wrote is in student_database under its student
\* id, with the same embeddings in the same order.
C8_SaveThenLoadRoundTrip ==
    (Idle /\ ret.op = "load_student_database" /\ ret.value.loaded)
    => \A student_id \in DOMAIN files :
          files[student_id].valid
          => /\ student_id \in DOMAIN student_database
             /\ [i \in DOMAIN student_database[student_id].encodings |->
                    tolist(student_database[student_id].encodings[i])]
                = files[student_id].encodings

\* some image of the folder encodes to a face
HasFace(f) == \E j \in DOMAIN photos[f] : photos[f][j] = "face"

\* C9: the batch never aborts on a failing student. When it returns, every
\* student folder has an outcome; a student whose images were encoded is
\* reported as success if an image gave an embedding and as failure if none
\* did; a student with no artifact whose images were not encoded is a failure.
C9_BatchReportsEveryStudent ==
    BatchReturned
    => LET results == ret.value.results
       IN  /\ DOMAIN results.details = Range(folders)
           /\ results.total_students = Len(folders)
           /\ results.successful + results.failed = results.total_students
           /\ \A f \in ret.value.processed :
                 results.details[f].success <=> HasFace(f)
           /\ \A f \in Range(folders) \ ret.value.processed :
                 upper(f) \notin DOMAIN ret.filesBefore
                 => ~results.details[f].success

\* a batch over three students returned two successes and one failure, the
\* faceless student coming before a student that succeeded
C9_Witness ==
    /\ BatchReturned
    /\ Len(folders) = 3
    /\ ret.value.results.successful = 2
    /\ ret.value.results.failed = 1
    /\ \E i, j \in DOMAIN folders :
          /\ i < j
          /\ {folders[i], folders[j]} \subseteq ret.value.processed
          /\ ~HasFace(folders[i])
          /\ ~ret.value.results.details[folders[i]].success
          /\ ret.value.results.details[folders[j]].success

\* C10: when the batch returns, a student whose artifact existed when the
\* batch started had no image submitted for encoding, has the same artifact
\* as before, and is reported as success.
C10_PersistedStudentIsSkipped ==
    BatchReturned
    => \A f \in Range(folders) :
          upper(f) \in DOMAIN ret.filesBefore
          => /\ f \notin ret.value.processed
             /\ upper(f) \in DOMAIN files
             /\ files[upper(f)] = ret.filesBefore[upper(f)]
             /\ ret.value.results.details[f].success

\* a batch run again skipped a student with an artifact while it encoded the
\* images of another student
C10_Witness ==
    /\ BatchReturned
    /\ ret.seq >= 2
    /\ ret.value.processed # {}
    /\ \E f \in Range(folders) :
          /\ upper(f) \in DOMAIN ret.filesBefore
          /\ ret.filesBefore[upper(f)].valid

\* the store holds the artifact of the student's registration in the gallery
Persisted(student_id) ==
    /\ student_id \in DOMAIN files
    /\ files[student_id].valid
    /\ student_id \in DOMAIN student_database
    /\ files[student_id] = Artifact(student_database[student_id])

\* C16: a failed artifact write is a hard error of the registration. No
\* partial artifact is ever left in the store, and a student is reported as
\* successfully registered (by register_student, or by the batch that
\* encoded the student's images) only with the artifact persisted.
C16_FailedSaveIsAnError ==
    /\ \A student_id \in DOMAIN files : files[student_id].valid
    /\ (Idle /\ ret.op = "register_student" /\ ret.value.success)
       => Persisted(ret.value.student_id)
    /\ BatchReturned
       => \A f \in ret.value.processed :
             ret.value.results.details[f].success => Persisted(upper(f))

\* the embeddings of a folder's images, in the order of image_paths
InPathOrder(f) ==
    LET faces == SelectSeq(get_student_images(f),
                           LAMBDA path : process_single_image(path) # None)
    IN  [j \in DOMAIN faces |-> process_single_image(faces[j])[1]]

\* the flattened lookup sequence holds the embeddings, in order and side by
\* side, under the student's id
InFlatSequence(student_id, encodings) ==
    \E k \in 0..(Len(known_face_encodings) - Len(encodings)) :
       \A j \in DOMAIN encodings :
          /\ known_face_encodings[k + j] = encodings[j]
          /\ known_face_names[k + j] = student_id

\* C18: aggregation does not depend on task completion order. Whatever the
\* order in which the tasks completed, a student the batch registered has
\* the image-path-ordered embedding sequence in student_database, in the
\* flattened lookup sequence and in the artifact written for it.
C18_AggregationInPathOrder ==
    BatchReturned
    => \A f \in ret.value.processed :
          ret.value.results.details[f].success
          => /\ student_database[upper(f)].encodings = InPathOrder(f)
             /\ InFlatSequence(upper(f), InPathOrder(f))
             /\ Persisted(upper(f))
                => files[upper(f)].encodings =
                      [j \in DOMAIN InPathOrder(f) |-> tolist(InPathOrder(f)[j])]

\* C21: the batch skips a student only when a persisted artifact exists for
\* that student id: every folder of the batch that has images and had no
\* artifact when the batch began has its images submitted for encoding,
\* whatever the number of artifacts that exist for other students.
C21_SkipsOnlyPersistedStudents ==
    BatchReturned
    => \A f \in Range(folders) :
          (get_student_images(f) # <<>> /\ ~ArtifactExists(ret.filesBefore, f))
          => f \in ret.value.processed

\* C27: every student that batch_register_from_folders reports as
\* successful, those reported from an existing artifact included, is in the
\* in-memory gallery when the call returns: it has at least one embedding in
\* student_database and in the flattened lookup sequence.
C27_ReportedStudentsAreInGallery ==
    BatchReturned
    => \A f \in DOMAIN ret.value.results.details :
          ret.value.results.details[f].success
          => /\ upper(f) \in DOMAIN student_database
             /\ student_database[upper(f)].encodings # <<>>
             /\ upper(f) \in Range(known_face_names)

(***************************************************************************)
(* Registration with encode tasks that may block                           *)
(***************************************************************************)
\* the system is constructed over folders a and b, whose images encode to a
\* face, to none, or never return
BlockingInit ==
    /\ timeAdapter = FALSE
    /\ tableSchema = "none"
    /\ attendance = <<>>
    /\ today = 1
    /\ ticks = 1
    /\ runs = [r \in Runs |-> IdleRun]
    /\ dbLock = 0
    /\ calls = <<>>
    /\ student_encodings = <<>>
    /\ student_photos = <<>>
    /\ matchOut = NoMatch
    /\ known_face_encodings = <<>>
    /\ known_face_names = <<>>
    /\ student_database = EmptyMap
    /\ files = EmptyMap
    /\ \E present \in SUBSET {"a", "b"} :
          /\ folders = SelectSeq(FolderNames, LAMBDA f : f \in present)
          /\ photos \in [present -> SeqsUpTo({"face", "none", "hang"}, MaxImages)]
          /\ \A f \in present : Len(photos[f]) <= MaxImagesOf(f)
    /\ reg = NoRegistration
    /\ batch = NoBatch
    /\ ret = NoReturn
    /\ nCalls = 0
    /\ disk = "ok"
    /\ MergerUnused
    /\ ReaderUnused

BlockingNext ==
    \/ load_student_database
    \/ batch_register_from_folders
    \/ batch_next
    \/ batch_return
    \/ \E student_id \in ApiStudents, f \in Range(folders) : register_student(student_id, f)
    \/ \E i \in 1..MaxImages : task_complete(i)
    \/ register_finish

\* the worker pool runs every task that can run, and the calling thread goes
\* on whenever it can
SpecBlocking ==
    /\ BlockingInit
    /\ [][BlockingNext]_vars
    /\ \A i \in 1..MaxImages : WF_vars(task_complete(i))
    /\ WF_vars(register_finish)
    /\ WF_vars(batch_next)
    /\ WF_vars(batch_return)

\* C17: an encode task that never returns does not stop the registration:
\* every register_student call eventually returns, and every batch
\* eventually returns its outcome map.
C17_RegistrationEventuallyCompletes ==
    /\ reg.active ~> ~reg.active
    /\ batch.active ~> ~batch.active

(***************************************************************************)
(* Registration that the caller may abandon                                *)
(***************************************************************************)
AbandonInit ==
    /\ timeAdapter = FALSE
    /\ tableSchema = "none"
    /\ attendance = <<>>
    /\ today = 1
    /\ ticks = 1
    /\ runs = [r \in Runs |-> IdleRun]
    /\ dbLock = 0
    /\ calls = <<>>
    /\ student_encodings = <<>>
    /\ student_photos = <<>>
    /\ matchOut = NoMatch
    /\ known_face_encodings = <<>>
    /\ known_face_names = <<>>
    /\ student_database = EmptyMap
    /\ files = EmptyMap
    /\ \E present \in SUBSET {"a", "b"} :
          /\ folders = SelectSeq(FolderNames, LAMBDA f : f \in present)
          /\ photos \in [present -> SeqsUpTo({"face", "none"}, MaxImages)]
          /\ \A f \in present : Len(photos[f]) <= MaxImagesOf(f)
    /\ reg = NoRegistration
    /\ batch = NoBatch
    /\ ret = NoReturn
    /\ nCalls = 0
    /\ disk \in SaveOutcomes
    /\ MergerUnused
    /\ ReaderUnused

\* the caller is interrupted while tasks of register_student are in flight:
\* the exception leaves register_student and the batch (neither catches it),
\* nothing more of them is executed; an object whose constructor was
\* interrupted does not exist
abandon ==
    /\ reg.active /\ reg.pending # {}
    /\ reg' = NoRegistration
    /\ batch' = NoBatch
    /\ ret' = Return("abandoned", nCalls, [loaded |-> FALSE], reg.filesBefore)
    /\ nCalls' = IF nCalls = 1 THEN MaxCalls ELSE nCalls
    /\ UNCHANGED <<notPipeline, galleryVars, ticks, files, folders, photos, disk>>

AbandonNext ==
    \/ load_student_database
    \/ batch_register_from_folders
    \/ batch_next
    \/ batch_return
    \/ \E student_id \in ApiStudents, f \in Range(folders) : register_student(student_id, f)
    \/ \E i \in 1..MaxImages : task_complete(i)
    \/ register_finish
    \/ abandon

SpecAbandon == AbandonInit /\ [][AbandonNext]_vars

\* C20: a student's artifact is written only after all of that student's
\* per-image tasks have finished: a step changes the artifact store only when
\* a registration is in progress with no task left in flight, and then only
\* that student's artifact; so while tasks are in flight, and when the caller
\* abandons the batch then, every artifact persisted before is unchanged.
C20_ArtifactWrittenAfterAllTasks ==
    /\ [](reg.active /\ reg.pending # {} => files = reg.filesBefore)
    /\ [][ /\ files' # files
              => /\ reg.active /\ reg.pending = {}
                 /\ \A student_id \in (DOMAIN files \cup DOMAIN files') \ {reg.student_id} :
                       /\ student_id \in DOMAIN files /\ student_id \in DOMAIN files'
                       /\ files'[student_id] = files[student_id]
           /\ (reg.active /\ reg.pending # {}) => files' = files ]_vars

\* a batch was abandoned with tasks in flight after it had persisted a
\* student, and that student's artifact is there as it was written
C20_Witness ==
    /\ ret.op = "abandoned"
    /\ ret.filesBefore # EmptyMap
    /\ files = ret.filesBefore

\* the step is register_student returning False to its caller
ReturnsFalse ==
    /\ reg.active /\ ~reg'.active
    /\ IF reg.caller = "api"
       THEN ret'.op = "register_student" /\ ~ret'.value.success
       ELSE /\ batch'.active
            /\ reg.folder \in DOMAIN batch'.details
            /\ ~batch'.details[reg.folder].success

\* C30: a failed registration changes nothing: from the submission of the
\* student's images to the return of False, student_database,
\* known_face_encodings, known_face_names and the artifact store stay as they
\* were before the call, a previous registration of the same student id
\* included.
C30_FailedRegistrationChangesNothing ==
    /\ []((Idle /\ ret.op = "register_student" /\ ~ret.value.success)
          => files = ret.filesBefore)
    /\ [][ (reg.active /\ (reg'.active \/ ReturnsFalse))
           => /\ student_database' = student_database
              /\ known_face_encodings' = known_face_encodings
              /\ known_face_names' = known_face_names
              /\ files' = files ]_vars

\* register_student returned False for a student that was registered before,
\* and the student is still in the gallery with its artifact
C30_Witness ==
    /\ Idle
    /\ ret.op = "register_student"
    /\ ~ret.value.success
    /\ ret.value.student_id \in DOMAIN student_database
    /\ ret.value.student_id \in Range(known_face_names)
    /\ Persisted(ret.value.student_id)

(***************************************************************************)
(* Detection merger (OptimizedAttendanceSystem.fast_face_detection)        *)
(***************************************************************************)
MaxBoxes == 3       \* boxes the detectors return for one image

\* a box as face_recognition gives it: (top, right, bottom, left)
Box(left, top, width, height) == <<top, left + width, top + height, left>>

\* the boxes the detectors may return: a chain of three overlapping boxes of
\* size 36, a fourth that overlaps the first two, a box of odd width, a box at
\* half the size from it, a box narrower than a face, one far away, and a
\* box of size 36 over the narrow one
BoxUniverse ==
    { Box(0, 0, 36, 36), Box(10, 0, 36, 36), Box(20, 0, 36, 36), Box(5, 5, 36, 36),
      Box(0, 0, 35, 36), Box(17, 0, 36, 36), Box(0, 50, 34, 40), Box(100, 0, 35, 35),
      Box(0, 52, 36, 36) }

\* face_center = ((left + right) // 2, (top + bottom) // 2)
face_center(face) == <<(face[4] + face[2]) \div 2, (face[1] + face[3]) \div 2>>

\* face_size = max(right - left, bottom - top)
face_size(face) ==
    IF face[2] - face[4] >= face[3] - face[1] THEN face[2] - face[4]
    ELSE face[3] - face[1]

\* distance < min_size * 0.5 between the computed centers, as
\* 4 * distance^2 < min_size^2
IsDuplicate(face, existing_face) ==
    LET c == face_center(face)
        ex == face_center(existing_face)
        distance2 == (c[1] - ex[1]) * (c[1] - ex[1]) + (c[2] - ex[2]) * (c[2] - ex[2])
        min_size == IF face_size(face) <= face_size(existing_face)
                    THEN face_size(face) ELSE face_size(existing_face)
    IN  4 * distance2 < min_size * min_size

\* the loop of remove_duplicate_faces from the k-th box on: the indices of
\* the boxes appended to unique_faces, in order
RECURSIVE UniqueFaces(_, _, _)
UniqueFaces(faces, k, kept) ==
    IF k > Len(faces) THEN kept
    ELSE IF \E i \in Range(kept) : IsDuplicate(faces[k], faces[i])
         THEN UniqueFaces(faces, k + 1, kept)
         ELSE UniqueFaces(faces, k + 1, Append(kept, k))

\* remove_duplicate_faces: which boxes of the list it returns
KeptIndices(faces) ==
    IF Len(faces) <= 1 THEN [i \in DOMAIN faces |-> i]
    ELSE UniqueFaces(faces, 1, <<>>)

MergerInit ==
    /\ timeAdapter = FALSE
    /\ tableSchema = "none"
    /\ attendance = <<>>
    /\ today = 1
    /\ ticks = 1
    /\ runs = [r \in Runs |-> IdleRun]
    /\ dbLock = 0
    /\ calls = <<>>
    /\ known_face_encodings = <<>>
    /\ known_face_names = <<>>
    /\ student_database = <<>>
    /\ student_encodings = <<>>
    /\ student_photos = <<>>
    /\ matchOut = NoMatch
    /\ PipelineUnused
    /\ face_locations \in SeqsUpTo(BoxUniverse, MaxBoxes)
    /\ merged = NoMerge
    /\ ReaderUnused

\* remove_duplicate_faces(face_locations)
remove_duplicate_faces ==
    LET kept == KeptIndices(face_locations)
    IN  /\ merged = NoMerge
        /\ merged' = [op |-> "remove_duplicate_faces", kept |-> kept,
                      unique_faces |-> [i \in DOMAIN kept |-> face_locations[kept[i]]]]
        /\ UNCHANGED <<recorderVars, galleryVars, matcherVars, pipelineVars, face_locations,
                       readerVars>>

min_face_size == 35

\* a size test that accepts a box when either side is long enough
IsValidFaceEither(location) ==
    location[3] - location[1] >= min_face_size \/ location[2] - location[4] >= min_face_size

\* face_height >= self.min_face_size and face_width >= self.min_face_size
IsValidFace(location) ==
    location[3] - location[1] >= min_face_size /\ location[2] - location[4] >= min_face_size

\* the sort key: (loc[2] - loc[0]) * (loc[1] - loc[3])
Area(loc) == (loc[3] - loc[1]) * (loc[2] - loc[4])

\* the place of a box in a list sorted by area, largest first: behind the
\* boxes that are at least as large (list.sort is stable, reverse included)
RECURSIVE InsertByArea(_, _)
InsertByArea(sorted, loc) ==
    IF sorted = <<>> THEN <<loc>>
    ELSE IF Area(Head(sorted)) >= Area(loc)
         THEN <<Head(sorted)>> \o InsertByArea(Tail(sorted), loc)
         ELSE <<loc>> \o sorted

\* a list left in the order it came in
Unsorted(faces) == faces

\* valid_faces.sort(key=area, reverse=True)
RECURSIVE SortByArea(_)
SortByArea(faces) ==
    IF faces = <<>> THEN <<>>
    ELSE InsertByArea(SortByArea(SubSeq(faces, 1, Len(faces) - 1)), faces[Len(faces)])

\* filter_and_validate_faces(face_locations)
filter_and_validate_faces(locations) ==
    IF locations = <<>> THEN <<>>
    ELSE SortByArea(SelectSeq(locations, IsValidFace))

\* remove_duplicate_faces(face_locations), the list it returns
RemoveDuplicateFaces(locations) ==
    LET kept == KeptIndices(locations)
    IN  [i \in DOMAIN kept |-> locations[kept[i]]]

\* what fast_face_detection returns for the boxes its two detectors found
ValidatedFaces(all_faces) ==
    IF all_faces = <<>> THEN <<>>
    ELSE filter_and_validate_faces(RemoveDuplicateFaces(all_faces))

\* fast_face_detection(image), from the boxes of the detectors on
fast_face_detection ==
    LET kept == KeptIndices(face_locations)
    IN  /\ merged = NoMerge
        /\ merged' = [op |-> "fast_face_detection", kept |-> kept,
                      unique_faces |-> RemoveDuplicateFaces(face_locations),
                      validated_faces |-> ValidatedFaces(face_locations)]
        /\ UNCHANGED <<recorderVars, galleryVars, matcherVars, pipelineVars, face_locations,
                       readerVars>>

MergerNext ==
    \/ remove_duplicate_faces
    \/ fast_face_detection

SpecMerger == MergerInit /\ [][MergerNext]_vars

\* the centers of two boxes are closer than 0.5 * min(size1, size2): with the
\* doubled centers (left + right, top + bottom), doubled distance < min size
CentersCloser(a, b) ==
    LET dx == (a[4] + a[2]) - (b[4] + b[2])
        dy == (a[1] + a[3]) - (b[1] + b[3])
        min_size == IF face_size(a) <= face_size(b) THEN face_size(a) ELSE face_size(b)
    IN  dx * dx + dy * dy < min_size * min_size

\* C11: of any two input boxes whose centers are closer than
\* 0.5 * min(size1, size2), remove_duplicate_faces retains exactly one.
C11_ExactlyOneOfTwoCloseBoxes ==
    merged.op = "remove_duplicate_faces"
    => \A i, j \in DOMAIN face_locations :
          (i < j /\ CentersCloser(face_locations[i], face_locations[j]))
          => ((i \in Range(merged.kept)) # (j \in Range(merged.kept)))

\* C25: every box in the merger's output has both width and height greater
\* than or equal to the minimum face size, and every deduplicated box that
\* meets the minimum in both dimensions is in the output.
C25_OutputIsTheSizeValidBoxes ==
    merged.op = "fast_face_detection"
    => /\ \A i \in DOMAIN merged.validated_faces :
             LET loc == merged.validated_faces[i]
             IN  /\ loc[2] - loc[4] >= min_face_size
                 /\ loc[3] - loc[1] >= min_face_size
       /\ \A i \in DOMAIN merged.unique_faces :
             LET loc == merged.unique_faces[i]
             IN  (loc[2] - loc[4] >= min_face_size /\ loc[3] - loc[1] >= min_face_size)
                 => loc \in Range(merged.validated_faces)

\* the detectors returned a box below the minimum in one dimension only and a
\* box exactly at the minimum; the first is dropped and the second kept
C25_Witness ==
    /\ merged.op = "fast_face_detection"
    /\ Box(0, 50, 34, 40) \in Range(merged.unique_faces)
    /\ Box(0, 50, 34, 40) \notin Range(merged.validated_faces)
    /\ Box(100, 0, 35, 35) \in Range(merged.validated_faces)

\* C26: the merger's output is ordered by non-increasing box area, for every
\* input list in every order; zero input boxes give an empty output and not
\* an error.
C26_OutputOrderedByArea ==
    merged.op = "fast_face_detection"
    => /\ \A i, j \in DOMAIN merged.validated_faces :
             i < j => Area(merged.validated_faces[i]) >= Area(merged.validated_faces[j])
       /\ face_locations = <<>> => merged.validated_faces = <<>>

\* the detectors returned a smaller box before a larger one, and the output
\* has the larger one first
C26_Witness ==
    /\ merged.op = "fast_face_detection"
    /\ Len(merged.validated_faces) >= 2
    /\ \E i, j \in DOMAIN face_locations :
          /\ i < j
          /\ Area(face_locations[i]) < Area(face_locations[j])
          /\ face_locations[i] \in Range(merged.validated_faces)
          /\ face_locations[j] = merged.validated_faces[1]

\* C28: a box that meets the minimum face size is never lost because of a
\* box that is itself discarded: an input box that meets the minimum size and
\* is not within the duplicate distance of any other size-valid input box
\* (by its centers as computed or as they are) appears in the output of
\* fast_face_detection's merge, whatever the input order.
C28_ValidBoxNotLostToDiscardedBox ==
    merged.op = "fast_face_detection"
    => \A i \in DOMAIN face_locations :
          ( /\ IsValidFace(face_locations[i])
            /\ \A j \in DOMAIN face_locations \ {i} :
                  IsValidFace(face_locations[j])
                  => /\ ~IsDuplicate(face_locations[i], face_locations[j])
                     /\ ~CentersCloser(face_locations[i], face_locations[j]) )
          => face_locations[i] \in Range(merged.validated_faces)

\* C29: no two boxes in the output of remove_duplicate_faces are duplicates
\* of each other: the centers of every two retained boxes are at least
\* 0.5 * min(size1, size2) apart; and the merge (dedup, size filter, area
\* sort) applied to its own output returns that output unchanged.
C29_RetainedBoxesAreApart ==
    merged.op = "fast_face_detection"
    => /\ \A i, j \in DOMAIN merged.unique_faces :
             i < j => ~CentersCloser(merged.unique_faces[i], merged.unique_faces[j])
       /\ ValidatedFaces(merged.validated_faces) = merged.validated_faces

(***************************************************************************)
(* Loading an artifact store that other processes wrote                    *)
(***************************************************************************)
\* what a file of the artifact store may hold
ArtifactKinds == {"valid", "invalid_json", "no_name", "no_encodings"}

\* a well-formed artifact of two embeddings for the student
SampleArtifact(student_id) ==
    LET base == CASE student_id = "A" -> 0 [] student_id = "B" -> 40
                  [] student_id = "STUDENT_1" -> 100
    IN  Artifact(StudentRecord(student_id, <<Embedding(base + 1), Embedding(base + 2)>>, 0, 2))

ArtifactOfKind(student_id, kind) ==
    LET a == SampleArtifact(student_id)
    IN  CASE kind = "valid" -> a
          [] kind = "invalid_json" -> PartialArtifact
          [] kind = "no_name" ->
                [valid |-> TRUE, encodings |-> a.encodings,
                 registered_date |-> a.registered_date, image_count |-> a.image_count,
                 total_encodings |-> a.total_encodings]
          [] kind = "no_encodings" ->
                [valid |-> TRUE, name |-> a.name,
                 registered_date |-> a.registered_date, image_count |-> a.image_count,
                 total_encodings |-> a.total_encodings]

\* the orders in which glob.glob may list the files of a store
Orders(S) == {o \in [1..Cardinality(S) -> S] : Range(o) = S}

\* the loop of load_precomputed_encodings over the files in the given order
RECURSIVE LoadInOrder(_, _, _)
LoadInOrder(g, fs, order) ==
    IF order = <<>> THEN g
    ELSE LoadInOrder(LoadArtifact(g, fs, Head(order)), fs, Tail(order))

LoaderInit ==
    /\ timeAdapter = FALSE
    /\ tableSchema = "none"
    /\ attendance = <<>>
    /\ today = 1
    /\ ticks = 1
    /\ runs = [r \in Runs |-> IdleRun]
    /\ dbLock = 0
    /\ calls = <<>>
    /\ known_face_encodings = <<>>
    /\ known_face_names = <<>>
    /\ student_database = EmptyMap
    /\ student_encodings = <<>>
    /\ student_photos = <<>>
    /\ matchOut = NoMatch
    /\ \E present \in SUBSET Range(ArtifactOrder) :
          \E kinds \in [present -> ArtifactKinds] :
             files = [student_id \in present |-> ArtifactOfKind(student_id, kinds[student_id])]
    /\ folders = <<>>
    /\ photos = <<>>
    /\ reg = NoRegistration
    /\ batch = NoBatch
    /\ ret = NoReturn
    /\ nCalls = 0
    /\ disk = "ok"
    /\ MergerUnused
    /\ ReaderUnused

\* load_precomputed_encodings into the empty gallery, the files listed in
\* some order
load_artifact_store(order) ==
    LET g == LoadInOrder([db |-> EmptyMap, encodings |-> <<>>, names |-> <<>>,
                          loaded_count |-> 0], files, order)
    IN  /\ ret = NoReturn
        /\ nCalls' = 1
        /\ student_database' = g.db
        /\ known_face_encodings' = g.encodings
        /\ known_face_names' = g.names
        /\ ret' = [op |-> "load_precomputed_encodings", seq |-> 1,
                   value |-> [loaded |-> g.loaded_count > 0], filesBefore |-> files,
                   repeats |-> FALSE, order |-> order]
        /\ UNCHANGED <<notPipeline, ticks, files, folders, photos, reg, batch, disk>>

LoaderNext == \E order \in Orders(DOMAIN files) : load_artifact_store(order)

SpecLoader == LoaderInit /\ [][LoaderNext]_vars

\* the artifact does not parse: invalid JSON, or a required field is missing
FailsToParse(a) == ~a.valid \/ {"name", "encodings"} \ DOMAIN a # {}

\* the artifact's embeddings are in the gallery under its student id, in both
\* structures, in the artifact's order
IsLoaded(student_id) ==
    /\ student_id \in DOMAIN student_database
    /\ [i \in DOMAIN student_database[student_id].encodings |->
           tolist(student_database[student_id].encodings[i])] = files[student_id].encodings
    /\ \A i \in DOMAIN student_database[student_id].encodings :
          \E k \in DOMAIN known_face_names :
             /\ known_face_names[k] = student_id
             /\ known_face_encodings[k] = student_database[student_id].encodings[i]

\* C14: when an artifact of the store fails to parse, it contributes nothing
\* to student_database or to the flattened lookup sequence, and every other,
\* valid artifact of the store is loaded, whatever the order of reading.
C14_CorruptArtifactIsolated ==
    ( /\ ret.op = "load_precomputed_encodings"
      /\ \E student_id \in DOMAIN files : FailsToParse(files[student_id]) )
    => \A student_id \in DOMAIN files :
          IF FailsToParse(files[student_id])
          THEN /\ student_id \notin DOMAIN student_database
               /\ student_id \notin Range(known_face_names)
          ELSE IsLoaded(student_id)

(***************************************************************************)
(* The gallery under a matching thread: register_student and               *)
(* load_student_database statement by statement, recognize_faces_in_image  *)
(* reading the gallery between any two of them                             *)
(***************************************************************************)
Registrants == {"A", "B"}

\* all_encodings of a registration from n images that each gave an embedding
RegisteredEncodings(student_id, n) ==
    LET base == CASE student_id = "A" -> 10 [] student_id = "B" -> 50
    IN  [j \in 1..n |-> Embedding(base + j)]

\* the object after construction over a store of well-formed artifacts
ReadersInit ==
    /\ timeAdapter = FALSE
    /\ tableSchema = "none"
    /\ attendance = <<>>
    /\ today = 1
    /\ ticks = 1
    /\ runs = [r \in Runs |-> IdleRun]
    /\ dbLock = 0
    /\ calls = <<>>
    /\ student_encodings = <<>>
    /\ student_photos = <<>>
    /\ matchOut = NoMatch
    /\ \E present \in SUBSET Range(ArtifactOrder) :
          files = [student_id \in present |-> SampleArtifact(student_id)]
    /\ LET g == LoadPrecomputed(EmptyMap, <<>>, <<>>, files)
       IN  /\ student_database = g.db
           /\ known_face_encodings = g.encodings
           /\ known_face_names = g.names
    /\ folders = <<>>
    /\ photos = <<>>
    /\ reg = NoRegistration
    /\ batch = NoBatch
    /\ ret = NoReturn
    /\ nCalls = 1
    /\ disk = "ok"
    /\ MergerUnused
    /\ ReaderUnused

notGallery == <<timeAdapter, tableSchema, attendance, today, runs, dbLock, calls,
                student_encodings, student_photos, matchOut, mergerVars,
                folders, photos, reg, batch, ret, disk>>

\* register_student, line 410: self.student_database[student_id] = student_data
register_store(student_id, n) ==
    LET all_encodings == RegisteredEncodings(student_id, n)
    IN  /\ writer.pc = "idle" /\ nCalls < MaxCalls
        /\ nCalls' = nCalls + 1
        /\ student_database' = Put(student_database, student_id,
                                   StudentRecord(student_id, all_encodings, ticks, n))
        /\ ticks' = ticks + 1
        /\ writer' = [pc |-> "extend_encodings", op |-> "register_student",
                      student_id |-> student_id, encodings |-> all_encodings,
                      todo |-> <<>>]
        /\ UNCHANGED <<notGallery, known_face_encodings, known_face_names, files, seen>>

\* line 413: self.known_face_encodings.extend(all_encodings)
register_extend_encodings ==
    /\ writer.op = "register_student" /\ writer.pc = "extend_encodings"
    /\ known_face_encodings' = known_face_encodings \o writer.encodings
    /\ writer' = [writer EXCEPT !.pc = "extend_names"]
    /\ UNCHANGED <<notGallery, student_database, known_face_names, files, ticks, nCalls,
                   seen>>

\* line 414: self.known_face_names.extend([student_id] * len(all_encodings))
register_extend_names ==
    /\ writer.op = "register_student" /\ writer.pc = "extend_names"
    /\ known_face_names' = known_face_names \o
           [i \in DOMAIN writer.encodings |-> writer.student_id]
    /\ writer' = [writer EXCEPT !.pc = "save"]
    /\ UNCHANGED <<notGallery, student_database, known_face_encodings, files, ticks,
                   nCalls, seen>>

\* line 417: self.save_precomputed_encoding(student_id, student_data); return True
register_save ==
    /\ writer.op = "register_student" /\ writer.pc = "save"
    /\ files' = save_precomputed_encoding(files, writer.student_id,
                                          student_database[writer.student_id], disk)
    /\ writer' = NoWriter
    /\ UNCHANGED <<notGallery, galleryVars, ticks, nCalls, seen>>

\* load_student_database, line 583: self.student_database = {}
reload_clear_database ==
    /\ writer.pc = "idle" /\ nCalls < MaxCalls
    /\ nCalls' = nCalls + 1
    /\ student_database' = EmptyMap
    /\ writer' = [NoWriter EXCEPT !.pc = "clear_encodings", !.op = "load_student_database"]
    /\ UNCHANGED <<notGallery, known_face_encodings, known_face_names, files, ticks, seen>>

\* line 584: self.known_face_encodings = []
reload_clear_encodings ==
    /\ writer.op = "load_student_database" /\ writer.pc = "clear_encodings"
    /\ known_face_encodings' = <<>>
    /\ writer' = [writer EXCEPT !.pc = "clear_names"]
    /\ UNCHANGED <<notGallery, student_database, known_face_names, files, ticks, nCalls,
                   seen>>

\* line 585: self.known_face_names = [], and the listing of the artifact files
reload_clear_names ==
    /\ writer.op = "load_student_database" /\ writer.pc = "clear_names"
    /\ known_face_names' = <<>>
    /\ writer' = [writer EXCEPT !.pc = "load",
                     !.todo = SelectSeq(ArtifactOrder, LAMBDA id : id \in DOMAIN files)]
    /\ UNCHANGED <<notGallery, student_database, known_face_encodings, files, ticks,
                   nCalls, seen>>

\* load_precomputed_encodings, lines 96-116: the next file is skipped, or
\* its student is stored in student_database
load_store ==
    LET student_id == Head(writer.todo)
        g == LoadArtifact([db |-> student_database, encodings |-> <<>>, names |-> <<>>,
                           loaded_count |-> 0], files, student_id)
    IN  /\ writer.op = "load_student_database" /\ writer.pc = "load"
        /\ writer.todo # <<>>
        /\ student_database' = g.db
        /\ writer' = IF g.loaded_count = 0
                     THEN [writer EXCEPT !.todo = Tail(writer.todo)]
                     ELSE [writer EXCEPT !.pc = "extend_encodings",
                                         !.student_id = student_id,
                                         !.encodings = g.encodings]
        /\ UNCHANGED <<notGallery, known_face_encodings, known_face_names, files, ticks,
                       nCalls, seen>>

\* line 119: self.known_face_encodings.extend(encodings)
load_extend_encodings ==
    /\ writer.op = "load_student_database" /\ writer.pc = "extend_encodings"
    /\ known_face_encodings' = known_face_encodings \o writer.encodings
    /\ writer' = [writer EXCEPT !.pc = "extend_names"]
    /\ UNCHANGED <<notGallery, student_database, known_face_names, files, ticks, nCalls,
                   seen>>

\* line 120: self.known_face_names.extend([student_id] * len(encodings))
load_extend_names ==
    /\ writer.op = "load_student_database" /\ writer.pc = "extend_names"
    /\ known_face_names' = known_face_names \o
           [i \in DOMAIN writer.encodings |-> writer.student_id]
    /\ writer' = [writer EXCEPT !.pc = "load", !.todo = Tail(writer.todo)]
    /\ UNCHANGED <<notGallery, student_database, known_face_encodings, files, ticks,
                   nCalls, seen>>

\* the loop is over: load_student_database returns (with no artifact loaded
\* it calls batch_register_from_folders, which finds no folder)
load_return ==
    /\ writer.op = "load_student_database" /\ writer.pc = "load"
    /\ writer.todo = <<>>
    /\ writer' = NoWriter
    /\ UNCHANGED <<notGallery, galleryVars, files, ticks, nCalls, seen>>

\* recognize_faces_in_image in another thread: what it reads from the
\* gallery (known_face_encodings, known_face_names, student_database)
observe ==
    /\ seen' = [op |-> "recognize_faces_in_image",
                known_face_encodings |-> known_face_encodings,
                known_face_names |-> known_face_names,
                student_database |-> student_database,
                during |-> writer.op]
    /\ seen' # seen
    /\ UNCHANGED <<notGallery, galleryVars, files, ticks, nCalls, writer>>

ReadersNext ==
    \/ \E student_id \in Registrants, n \in 1..MaxImages : register_store(student_id, n)
    \/ register_extend_encodings
    \/ register_extend_names
    \/ register_save
    \/ reload_clear_database
    \/ reload_clear_encodings
    \/ reload_clear_names
    \/ load_store
    \/ load_extend_encodings
    \/ load_extend_names
    \/ load_return
    \/ observe

SpecReaders == ReadersInit /\ [][ReadersNext]_vars

\* the index a reader has read is whole: as many names as embeddings, every
\* embedding one of its name's student, every name a key of student_database
WholeIndex(s) ==
    /\ Len(s.known_face_encodings) = Len(s.known_face_names)
    /\ \A i \in DOMAIN s.known_face_names :
          /\ s.known_face_names[i] \in DOMAIN s.student_database
          /\ i \in DOMAIN s.known_face_encodings
             => s.known_face_encodings[i] \in
                   Range(s.student_database[s.known_face_names[i]].encodings)

\* C19: a reader that matches a frame while register_student or a load is
\* mutating the gallery never observes a half-updated index:
\* known_face_encodings and known_face_names have equal length, every index
\* maps an embedding to its owning student id, and every student id in
\* known_face_names is a key of student_database.
C19_ReaderSeesWholeIndex ==
    (seen.op = "recognize_faces_in_image" /\ seen.during # "none") => WholeIndex(seen)

====
